---------------------------- MODULE Spec2Model ----------------------------
(***************************************************************************)
(* Model of script.js: two TimerApp cards (desktop, phone) built on one   *)
(* page, sharing the toast, ripple and beep elements.                     *)
(*                                                                         *)
(* Strings the code computes (formatTime, template literals, the target   *)
(* input) are sequences of one-character strings; fixed literals are kept *)
(* as single tokens.  Every event handler runs to completion, so each     *)
(* handler is one action.  setInterval/setTimeout registrations are kept  *)
(* in explicit tables and their callbacks are separate actions.           *)
(* The operations are the methods of TimerApp, callable in any state (the *)
(* buttons and the keyboard shortcuts both end in these calls).           *)
(*                                                                         *)
(* Not represented: the CSS classes "show" of #ripple and "reset-anim" of *)
(* the ring, which timeouts remove again and no handler reads, and the    *)
(* audio element's playback position.                                      *)
(***************************************************************************)
EXTENDS Integers, Sequences, FiniteSets, TLC

VARIABLES
    app,           \* app[c]: the fields of the TimerApp of card c, with the DOM nodes it owns
    timers,        \* timers[c]: ids of the live setInterval registrations made by card c
    toastEl,       \* shared #toast element: [text, show]
    toastTimers,   \* pending showToast timeouts, oldest first; each entry is the card that set it
    alarms,        \* alarms[c]: playBeep calls made by card c since its last successful start
    run,           \* run[c]: the ticks seen since the last successful start, while nothing else happened
    sinceClear,    \* sinceClear[c]: the ticks seen since the last clearLaps, until a lap is recorded
                   \* or changeMode or applyTarget sets the lap basis anew
    parse          \* one call of parseTime: the text in the target input, and what the call returned

vars == <<app, timers, toastEl, toastTimers, alarms, run, sinceClear, parse>>

Cards == {"desktop", "phone"}

(* ---------------------------- bounds ---------------------------------- *)
MaxElapsed == 2     \* ticks are explored while the elapsed basis is below this
MaxLaps == 1        \* laps recorded before the log has to be cleared (Spec, SpecPage)
MaxLapLog == 2      \* the same, in SpecLaps
MaxToasts == 1      \* pending toast timeouts per card

(* ------------------------ program constants --------------------------- *)
DefaultTarget == 600
NoInterval == 0      \* this.interval = null; setInterval ids start at 1
Invalid == -1        \* parseTime returning null; every parsed duration is >= 0

(* ------------------------- string helpers ----------------------------- *)
Chr(d) == CASE d = 0 -> "0" [] d = 1 -> "1" [] d = 2 -> "2" [] d = 3 -> "3" [] d = 4 -> "4"
            [] d = 5 -> "5" [] d = 6 -> "6" [] d = 7 -> "7" [] d = 8 -> "8" [] d = 9 -> "9"

DigitChars == {"0", "1", "2", "3", "4", "5", "6", "7", "8", "9"}

DigitVal(ch) == CHOOSE d \in 0..9 : Chr(d) = ch

RECURSIVE NatStr(_)
NatStr(n) == IF n < 10 THEN <<Chr(n)>> ELSE NatStr(n \div 10) \o <<Chr(n % 10)>>

\* String(n) for an integer n
Str(n) == IF n < 0 THEN <<"-">> \o NatStr(-n) ELSE NatStr(n)

\* s.padStart(2, "0")
PadStart2(s) == IF Len(s) = 0 THEN <<"0", "0">> ELSE IF Len(s) = 1 THEN <<"0">> \o s ELSE s

\* JavaScript % and Math.floor(a/60) on integers: the remainder takes the sign of the dividend
JsRem(a, b) == IF a >= 0 THEN a % b ELSE -((-a) % b)
FloorDiv(a, b) == a \div b

Max(a, b) == IF a >= b THEN a ELSE b
Min(a, b) == IF a <= b THEN a ELSE b

formatTime(total) ==
    LET m == FloorDiv(total, 60)
        s == JsRem(total, 60)
    IN  PadStart2(Str(m)) \o <<":">> \o PadStart2(Str(s))

(* ------------------------------ parseTime ----------------------------- *)
IsSpace(ch) == ch = " "

RECURSIVE TrimLeft(_)
TrimLeft(s) == IF s # <<>> /\ IsSpace(Head(s)) THEN TrimLeft(Tail(s)) ELSE s

RECURSIVE TrimRight(_)
TrimRight(s) == IF s # <<>> /\ IsSpace(s[Len(s)]) THEN TrimRight(SubSeq(s, 1, Len(s) - 1)) ELSE s

Trim(s) == TrimRight(TrimLeft(s))

\* s.split(":")
RECURSIVE Split(_)
Split(s) ==
    IF \E i \in 1..Len(s) : s[i] = ":"
    THEN LET i == CHOOSE k \in 1..Len(s) : s[k] = ":" /\ \A j \in 1..(k - 1) : s[j] # ":"
         IN  <<SubSeq(s, 1, i - 1)>> \o Split(SubSeq(s, i + 1, Len(s)))
    ELSE <<s>>

RECURSIVE DigitRun(_)
DigitRun(s) == IF s # <<>> /\ Head(s) \in DigitChars THEN <<Head(s)>> \o DigitRun(Tail(s)) ELSE <<>>

RECURSIVE DigitsVal(_)
DigitsVal(ds) == IF ds = <<>> THEN 0 ELSE DigitsVal(SubSeq(ds, 1, Len(ds) - 1)) * 10 + DigitVal(ds[Len(ds)])

NaN == [nan |-> TRUE, val |-> 0]

\* parseInt(s, 10): leading white space skipped, an optional sign, then the longest run of
\* digits; whatever follows the digits is ignored; NaN when there is no digit.
parseInt(s) ==
    LET t    == TrimLeft(s)
        neg  == t # <<>> /\ Head(t) = "-"
        body == IF t # <<>> /\ Head(t) \in {"-", "+"} THEN Tail(t) ELSE t
        ds   == DigitRun(body)
    IN  IF ds = <<>> THEN NaN
        ELSE [nan |-> FALSE, val |-> IF neg THEN -DigitsVal(ds) ELSE DigitsVal(ds)]

parseTime(str) ==
    LET parts == Split(Trim(str))
    IN  IF Len(parts) # 2 THEN Invalid
        ELSE LET mm == parseInt(parts[1])
                 ss == parseInt(parts[2])
             IN  IF mm.nan \/ ss.nan \/ mm.val < 0 \/ ss.val < 0 \/ ss.val > 59 THEN Invalid
                 ELSE mm.val * 60 + ss.val

(* --------------------------- inputs ----------------------------------- *)
Modes == {"up", "down"}

\* Texts typed into the target input.
TargetTexts == {
    <<"0", "0", ":", "0", "0">>,
    <<"0", "0", ":", "0", "2">>,
    <<" ", "0", ":", "2", "x">>,
    <<"9", "9", ":", "9", "9">>,
    <<"0", "2">> }

\* parseTime over the texts above, tabulated once
ParsedTarget == [text \in TargetTexts |-> parseTime(text)]

(* ------------------------ TimerApp helpers ---------------------------- *)
RingDen == 60

\* the elapsed basis addLap and clearLaps compute
Basis(t) == IF t.mode = "up" THEN t.seconds ELSE t.targetSeconds - t.seconds

showStatus(t, text) == [t EXCEPT !.statusText = text]

enableControls(t, start, pause, lap, reset) ==
    [t EXCEPT !.disabled = [start |-> ~start, pause |-> ~pause, lap |-> ~lap, reset |-> ~reset]]

\* ring is the progress fraction frac as num/den; the stroke offset is CIRC - frac * CIRC
updateDisplay(t) ==
    [t EXCEPT
        !.timerText = formatTime(Max(0, t.seconds)),
        !.ring = IF t.mode = "down" /\ t.targetSeconds > 0
                 THEN LET elapsed == t.targetSeconds - Max(0, t.seconds)
                      IN  [num |-> Min(t.targetSeconds, Max(0, elapsed)), den |-> t.targetSeconds]
                 ELSE [num |-> JsRem(t.seconds, RingDen), den |-> RingDen]]

renderLap(lap) ==
    [idx   |-> <<"#">> \o Str(lap.index),
     time  |-> formatTime(lap.total),
     delta |-> <<"+">> \o formatTime(Max(0, lap.diff))]

clearLaps(t) ==
    [t EXCEPT !.laps = <<>>, !.lastLapBasis = Basis(t), !.lapsEl = <<>>]

\* addLap numbering from the length of the log before the push
addLapZeroBased(t) ==
    LET basisTotal == Basis(t)
        index      == Len(t.laps)
        diff       == basisTotal - t.lastLapBasis
        lapItem    == [index |-> index, total |-> basisTotal, diff |-> diff]
    IN  [t EXCEPT !.lastLapBasis = basisTotal,
                  !.laps = Append(t.laps, lapItem),
                  !.lapsEl = <<renderLap(lapItem)>> \o t.lapsEl]

\* the TimerApp part of addLap, for a running card
addLap(t) ==
    LET basisTotal == Basis(t)
        index      == Len(t.laps) + 1
        diff       == basisTotal - t.lastLapBasis
        lapItem    == [index |-> index, total |-> basisTotal, diff |-> diff]
    IN  [t EXCEPT !.lastLapBasis = basisTotal,
                  !.laps = Append(t.laps, lapItem),
                  !.lapsEl = <<renderLap(lapItem)>> \o t.lapsEl]

\* changeMode that leaves the display as it was
changeModeStale(t) ==
    LET t1 == [t EXCEPT !.mode = t.modeSel, !.finished = FALSE]
    IN  IF t1.mode = "down"
        THEN showStatus([t1 EXCEPT !.seconds = t1.targetSeconds, !.lastLapBasis = 0],
                        "Ready (Countdown)")
        ELSE showStatus([t1 EXCEPT !.lastLapBasis = 0], "Ready")

\* changeMode that keeps the lap basis of the mode it leaves
changeModeKeepsBasis(t) ==
    LET t1 == [t EXCEPT !.mode = t.modeSel, !.finished = FALSE]
        t2 == IF t1.mode = "down"
              THEN showStatus([t1 EXCEPT !.seconds = t1.targetSeconds], "Ready (Countdown)")
              ELSE showStatus(t1, "Ready")
    IN  updateDisplay(t2)

\* the TimerApp part of a successful changeMode; t.modeSel holds the selected value
changeMode(t) ==
    LET t1 == [t EXCEPT !.mode = t.modeSel, !.finished = FALSE]
        t2 == IF t1.mode = "down"
              THEN showStatus([t1 EXCEPT !.seconds = t1.targetSeconds, !.lastLapBasis = 0],
                              "Ready (Countdown)")
              ELSE showStatus([t1 EXCEPT !.lastLapBasis = 0], "Ready")
    IN  updateDisplay(t2)

\* applyTarget that forgets to clear the finished flag
applyTargetKeepsFinished(t, secs) ==
    LET t1 == [t EXCEPT !.targetSeconds = secs]
    IN  IF t1.mode = "down"
        THEN showStatus(updateDisplay([t1 EXCEPT !.seconds = t1.targetSeconds,
                                                 !.lastLapBasis = 0]),
                        "Ready (Countdown)")
        ELSE t1

\* applyTarget that leaves a running countdown alone
applyTargetIdleOnly(t, secs) ==
    LET t1 == [t EXCEPT !.targetSeconds = secs]
    IN  IF t1.mode = "down" /\ ~t1.isRunning
        THEN showStatus(updateDisplay([t1 EXCEPT !.seconds = t1.targetSeconds,
                                                 !.finished = FALSE,
                                                 !.lastLapBasis = 0]),
                        "Ready (Countdown)")
        ELSE t1

\* the TimerApp part of applyTarget once parseTime returned secs
applyTarget(t, secs) ==
    LET t1 == [t EXCEPT !.targetSeconds = secs]
    IN  IF t1.mode = "down"
        THEN showStatus(updateDisplay([t1 EXCEPT !.seconds = t1.targetSeconds,
                                                 !.finished = FALSE,
                                                 !.lastLapBasis = 0]),
                        "Ready (Countdown)")
        ELSE t1

\* the TimerApp part of a successful start; id is the handle setInterval returns
start(t, id) ==
    LET t1 == [t EXCEPT !.isRunning = TRUE]
        t2 == showStatus(t1, IF t1.mode = "down" THEN "Counting down..." ELSE "Running...")
        t3 == enableControls([t2 EXCEPT !.pausedHidden = TRUE], FALSE, TRUE, TRUE, TRUE)
    IN  [t3 EXCEPT !.interval = id]

\* the TimerApp part of pause, for a running card
pause(t) ==
    LET t1 == showStatus([t EXCEPT !.isRunning = FALSE], "Paused")
    IN  enableControls([t1 EXCEPT !.pausedHidden = FALSE], TRUE, FALSE, FALSE, TRUE)

\* reset that forgets to clear the finished flag
resetKeepsFinished(t) ==
    LET t1 == [t EXCEPT !.isRunning = FALSE]
        t2 == [t1 EXCEPT !.seconds = IF t1.mode = "down" THEN t1.targetSeconds ELSE 0]
        t3 == updateDisplay([t2 EXCEPT !.lastLapBasis = 0])
        t4 == showStatus(t3, IF t3.mode = "down" THEN "Ready (Countdown)" ELSE "Ready")
        t5 == enableControls([t4 EXCEPT !.pausedHidden = TRUE], TRUE, FALSE, FALSE, FALSE)
    IN  clearLaps(t5)

\* the TimerApp part of reset
reset(t) ==
    LET t1 == [t EXCEPT !.isRunning = FALSE, !.finished = FALSE]
        t2 == [t1 EXCEPT !.seconds = IF t1.mode = "down" THEN t1.targetSeconds ELSE 0]
        t3 == updateDisplay([t2 EXCEPT !.lastLapBasis = 0])
        t4 == showStatus(t3, IF t3.mode = "down" THEN "Ready (Countdown)" ELSE "Ready")
        t5 == enableControls([t4 EXCEPT !.pausedHidden = TRUE], TRUE, FALSE, FALSE, FALSE)
    IN  clearLaps(t5)

\* finishCountdown that leaves the controls as the run had them
finishCountdownKeepsControls(t) ==
    LET t1 == showStatus([t EXCEPT !.isRunning = FALSE, !.finished = TRUE], "Finished")
    IN  [t1 EXCEPT !.pausedHidden = TRUE]

\* the TimerApp part of finishCountdown
finishCountdown(t) ==
    LET t1 == showStatus([t EXCEPT !.isRunning = FALSE, !.finished = TRUE], "Finished")
    IN  enableControls([t1 EXCEPT !.pausedHidden = TRUE], TRUE, FALSE, FALSE, TRUE)

\* a callback that stops decrementing at 1 instead of 0
tickSkipsZero(t) ==
    IF t.mode = "up"
    THEN updateDisplay([t EXCEPT !.seconds = t.seconds + 1])
    ELSE IF t.seconds > 1
         THEN updateDisplay([t EXCEPT !.seconds = t.seconds - 1])
         ELSE t

\* the counter update of one interval callback; finishCountdown follows when it reaches 0
tick(t) ==
    IF t.mode = "up"
    THEN updateDisplay([t EXCEPT !.seconds = t.seconds + 1])
    ELSE IF t.seconds > 0
         THEN updateDisplay([t EXCEPT !.seconds = t.seconds - 1])
         ELSE t

\* the test for 0 made before the decrement instead of after it
tickFinishesLate(t, t1) == t.mode # "up" /\ t.seconds = 0

\* whether the callback, having produced t1 from t, calls finishCountdown
tickFinishes(t, t1) == t.mode # "up" /\ t.seconds > 0 /\ t1.seconds = 0

(* ------------------------------ state --------------------------------- *)
\* the fields the constructor sets; statusText, pausedHidden and modeSel start as the markup has them
NewTimerApp ==
    enableControls(updateDisplay(
        [seconds |-> 0, isRunning |-> FALSE, interval |-> NoInterval,
         mode |-> "up", targetSeconds |-> DefaultTarget, finished |-> FALSE,
         laps |-> <<>>, lastLapBasis |-> 0,
         timerText |-> <<>>, ring |-> [num |-> 0, den |-> RingDen],
         statusText |-> "Ready", pausedHidden |-> TRUE, modeSel |-> "up",
         disabled |-> [start |-> FALSE, pause |-> FALSE, lap |-> FALSE, reset |-> FALSE],
         lapsEl |-> <<>>]),
        TRUE, FALSE, FALSE, FALSE)

NoRun == [active |-> FALSE, n |-> 0, ticks |-> 0]

NoClear == [active |-> FALSE, ticks |-> 0]

NoParse == [text |-> <<>>, done |-> FALSE, result |-> Invalid]

Init ==
    /\ app = [c \in Cards |-> NewTimerApp]
    /\ timers = [c \in Cards |-> {}]
    /\ toastEl = [text |-> <<>>, show |-> FALSE]
    /\ toastTimers = <<>>
    /\ alarms = [c \in Cards |-> 0]
    /\ run = [c \in Cards |-> NoRun]
    /\ sinceClear = [c \in Cards |-> NoClear]
    /\ parse = NoParse

(* ------------------------ shared UI services -------------------------- *)
\* showToast(msg) called by card c: the text is replaced, the element shown, and a timeout
\* is registered that removes "show" after the (always default) 1500 ms
showToast(c, msg) ==
    /\ Cardinality({i \in 1..Len(toastTimers) : toastTimers[i] = c}) < MaxToasts
    /\ toastEl' = [text |-> msg, show |-> TRUE]
    /\ toastTimers' = Append(toastTimers, c)

NoToast == UNCHANGED <<toastEl, toastTimers>>

\* setInterval returns an id no live registration has
NewId(c) == CHOOSE i \in 1..(Cardinality(timers[c]) + 1) :
                i \notin timers[c] /\ \A j \in 1..(i - 1) : j \in timers[c]

clearInterval(c, id) == timers' = [timers EXCEPT ![c] = @ \ {id}]

Forget(c) == run' = [run EXCEPT ![c] = NoRun]

Cleared(c) == sinceClear' = [sinceClear EXCEPT ![c] = [active |-> TRUE, ticks |-> 0]]

Uncleared(c) == sinceClear' = [sinceClear EXCEPT ![c] = NoClear]

(* ----------------------------- operations ----------------------------- *)
\* start without the isRunning guard
StartNoGuard(c) ==
    LET t == app[c] IN
    IF t.mode = "down" /\ t.seconds <= 0
    THEN /\ showToast(c, <<"Set target & Apply before starting">>)
         /\ Forget(c)
         /\ UNCHANGED <<app, timers, alarms, sinceClear, parse>>
    ELSE LET id == NewId(c) IN
         /\ app' = [app EXCEPT ![c] = start(t, id)]
         /\ timers' = [timers EXCEPT ![c] = @ \cup {id}]
         /\ showToast(c, <<"Timer started">>)
         /\ alarms' = [alarms EXCEPT ![c] = 0]
         /\ UNCHANGED parse
         /\ run' = [run EXCEPT ![c] = [active |-> TRUE, n |-> t.seconds, ticks |-> 0]]
         /\ UNCHANGED sinceClear

\* start without the test for a countdown at 0
StartNoZeroCheck(c) ==
    LET t == app[c] IN
    IF t.isRunning THEN UNCHANGED vars
    ELSE LET id == NewId(c) IN
         /\ app' = [app EXCEPT ![c] = start(t, id)]
         /\ timers' = [timers EXCEPT ![c] = @ \cup {id}]
         /\ showToast(c, <<"Timer started">>)
         /\ alarms' = [alarms EXCEPT ![c] = 0]
         /\ UNCHANGED parse
         /\ run' = [run EXCEPT ![c] = [active |-> TRUE, n |-> t.seconds, ticks |-> 0]]
         /\ UNCHANGED sinceClear

Start(c) ==
    LET t == app[c] IN
    IF t.isRunning THEN UNCHANGED vars
    ELSE IF t.mode = "down" /\ t.seconds <= 0
    THEN /\ showToast(c, <<"Set target & Apply before starting">>)
         /\ Forget(c)
         /\ UNCHANGED <<app, timers, alarms, sinceClear, parse>>
    ELSE LET id == NewId(c) IN
         /\ app' = [app EXCEPT ![c] = start(t, id)]
         /\ timers' = [timers EXCEPT ![c] = @ \cup {id}]
         /\ showToast(c, <<"Timer started">>)
         /\ alarms' = [alarms EXCEPT ![c] = 0]
         /\ UNCHANGED parse
         /\ run' = [run EXCEPT ![c] = [active |-> TRUE, n |-> t.seconds, ticks |-> 0]]
         /\ UNCHANGED sinceClear

\* one firing of the setInterval callback registered by start
Tick(c) ==
    LET t  == app[c]
        t1 == tick(t)
    IN  /\ timers[c] # {}
        /\ Basis(t) < MaxElapsed
        /\ sinceClear[c].ticks < MaxElapsed
        /\ IF tickFinishes(t, t1)
           THEN /\ app' = [app EXCEPT ![c] = finishCountdown(t1)]
                /\ clearInterval(c, t1.interval)
                /\ alarms' = [alarms EXCEPT ![c] = @ + 1]
                /\ UNCHANGED parse
                /\ showToast(c, <<"Time's up!">>)
           ELSE /\ app' = [app EXCEPT ![c] = t1]
                /\ NoToast
                /\ UNCHANGED <<timers, alarms, parse>>
        /\ run' = [run EXCEPT ![c] = IF @.active THEN [@ EXCEPT !.ticks = @ + 1] ELSE @]
        /\ sinceClear' = [sinceClear EXCEPT ![c] = IF @.active THEN [@ EXCEPT !.ticks = @ + 1] ELSE @]

Pause(c) ==
    LET t == app[c] IN
    IF ~t.isRunning THEN UNCHANGED vars
    ELSE /\ clearInterval(c, t.interval)
         /\ app' = [app EXCEPT ![c] = pause(t)]
         /\ showToast(c, <<"Timer paused">>)
         /\ Forget(c)
         /\ UNCHANGED <<alarms, sinceClear, parse>>

Reset(c) ==
    LET t == app[c] IN
    /\ clearInterval(c, t.interval)
    /\ app' = [app EXCEPT ![c] = reset(t)]
    /\ showToast(c, <<"Timer reset">>)
    /\ Forget(c)
    /\ Cleared(c)
    /\ UNCHANGED <<alarms, parse>>

\* addLap; room bounds the length of the log
AddLap(c, room) ==
    LET t == app[c] IN
    IF ~t.isRunning THEN UNCHANGED vars
    ELSE /\ Len(t.laps) < room
         /\ app' = [app EXCEPT ![c] = addLap(t)]
         /\ showToast(c, <<"Lap ">> \o Str(Len(t.laps) + 1) \o <<" recorded">>)
         /\ Forget(c)
         /\ Uncleared(c)
         /\ UNCHANGED <<timers, alarms, parse>>

ClearLaps(c) ==
    /\ app' = [app EXCEPT ![c] = clearLaps(app[c])]
    /\ Forget(c)
    /\ Cleared(c)
    /\ NoToast
    /\ UNCHANGED <<timers, alarms, parse>>

\* changeMode without the isRunning guard
ChangeModeAlways(c, sel) ==
    LET t == [app[c] EXCEPT !.modeSel = sel] IN
    /\ sel # app[c].modeSel
    /\ app' = [app EXCEPT ![c] = changeMode(t)]
    /\ NoToast
    /\ Forget(c)
    /\ Uncleared(c)
    /\ UNCHANGED <<timers, alarms, parse>>

\* the change event of the mode select after the user picked sel
ChangeMode(c, sel) ==
    LET t == [app[c] EXCEPT !.modeSel = sel] IN
    /\ sel # app[c].modeSel
    /\ IF t.isRunning
       THEN /\ showToast(c, <<"Pause to change mode">>)
            /\ app' = [app EXCEPT ![c] = [t EXCEPT !.modeSel = t.mode]]
            /\ UNCHANGED sinceClear
       ELSE /\ app' = [app EXCEPT ![c] = changeMode(t)]
            /\ NoToast
            /\ Uncleared(c)
    /\ Forget(c)
    /\ UNCHANGED <<timers, alarms, parse>>

\* applyTarget with a rejected text taken as a target of 0 instead of returning
ApplyTargetNoReject(c, text) ==
    LET t    == app[c]
        secs == Max(0, ParsedTarget[text])
    IN  /\ app' = [app EXCEPT ![c] = applyTarget(t, secs)]
        /\ showToast(c, <<"Target set to ">> \o formatTime(secs))
        /\ IF t.mode = "down" THEN Uncleared(c) ELSE UNCHANGED sinceClear
        /\ Forget(c)
        /\ UNCHANGED <<timers, alarms, parse>>

\* a click on Apply with text in the target input
ApplyTarget(c, text) ==
    LET t    == app[c]
        secs == ParsedTarget[text]
    IN  /\ IF secs = Invalid
           THEN /\ showToast(c, <<"Invalid target (use mm:ss)">>)
                /\ UNCHANGED <<app, sinceClear>>
           ELSE /\ app' = [app EXCEPT ![c] = applyTarget(t, secs)]
                /\ showToast(c, <<"Target set to ">> \o formatTime(secs))
                /\ IF t.mode = "down" THEN Uncleared(c) ELSE UNCHANGED sinceClear
        /\ Forget(c)
        /\ UNCHANGED <<timers, alarms, parse>>

(* -------------------------- timeout callbacks ------------------------- *)
\* the oldest pending showToast timeout fires (all have the same delay)
ToastTimeout ==
    /\ toastTimers # <<>>
    /\ toastEl' = [toastEl EXCEPT !.show = FALSE]
    /\ toastTimers' = Tail(toastTimers)
    /\ UNCHANGED <<app, timers, alarms, run, sinceClear, parse>>

(* --------------------------- specifications --------------------------- *)
\* every operation of card c
Operation(c, room) ==
    \/ Start(c)
    \/ Tick(c)
    \/ Pause(c)
    \/ Reset(c)
    \/ AddLap(c, room)
    \/ ClearLaps(c)
    \/ \E sel \in Modes : ChangeMode(c, sel)
    \/ \E text \in TargetTexts : ApplyTarget(c, text)

\* Spec: one card in use (both cards run the same class and share only the toast)
Next ==
    \/ Operation("desktop", MaxLaps)
    \/ ToastTimeout

Spec == Init /\ [][Next]_vars

\* SpecLaps: the same card with room for a longer lap log
NextLaps ==
    \/ Operation("desktop", MaxLapLog)
    \/ ToastTimeout

SpecLaps == Init /\ [][NextLaps]_vars

\* SpecPage: both cards in use side by side, each started, ticking, paused and reset
NextPage ==
    \/ \E c \in Cards : Start(c) \/ Tick(c) \/ Pause(c) \/ Reset(c)
    \/ ToastTimeout

SpecPage == Init /\ [][NextPage]_vars

\* SpecStopwatch: the card with the target left as constructed and room for a longer lap log
NextStopwatch ==
    \/ Start("desktop")
    \/ Tick("desktop")
    \/ Pause("desktop")
    \/ Reset("desktop")
    \/ AddLap("desktop", MaxLapLog)
    \/ ClearLaps("desktop")
    \/ \E sel \in Modes : ChangeMode("desktop", sel)
    \/ ToastTimeout

SpecStopwatch == Init /\ [][NextStopwatch]_vars

\* SpecParse: one call of parseTime on a text typed into the target input
MaxText == 4

ParseChars == {"0", "5", "6", ":", "x", "-", " "}

ParseTexts == UNION {[1..n -> ParseChars] : n \in 0..MaxText}

InitParse ==
    /\ app = [c \in Cards |-> NewTimerApp]
    /\ timers = [c \in Cards |-> {}]
    /\ toastEl = [text |-> <<>>, show |-> FALSE]
    /\ toastTimers = <<>>
    /\ alarms = [c \in Cards |-> 0]
    /\ run = [c \in Cards |-> NoRun]
    /\ sinceClear = [c \in Cards |-> NoClear]
    /\ parse \in {[text |-> text, done |-> FALSE, result |-> Invalid] : text \in ParseTexts}

ParseTime ==
    /\ ~parse.done
    /\ parse' = [parse EXCEPT !.done = TRUE, !.result = parseTime(parse.text)]
    /\ UNCHANGED <<app, timers, toastEl, toastTimers, alarms, run, sinceClear>>

NextParse == ParseTime

SpecParse == InitParse /\ [][NextParse]_vars

(* ------------------------------ claims -------------------------------- *)
Scheduled(c) == timers[c]

\* C1: for each card, a periodic tick is scheduled if and only if the card is Running, and
\* the only tick ever scheduled is the one the card holds the handle of; so pause, reset and
\* the countdown finishing leave none, and start while Running adds no second one.
C1_TickIffRunning ==
    \A c \in Cards :
        Scheduled(c) = IF app[c].isRunning THEN {app[c].interval} ELSE {}

\* a card that ran and was stopped: it holds a handle, and nothing is scheduled
C1_Witness ==
    \E c \in Cards :
        /\ ~app[c].isRunning
        /\ app[c].interval # NoInterval
        /\ app[c].statusText = "Paused"
        /\ Scheduled(c) = {}

\* C2: a countdown started at counter n > 0 and followed by ticks only counts n - k after
\* k ticks; before the n-th tick it is Running with its tick scheduled and no alarm, and
\* after the n-th tick it is Finished at 0, not Running, with no tick scheduled and exactly
\* one alarm; there is no further tick.
C2_CountdownRun ==
    \A c \in Cards :
        (run[c].active /\ app[c].mode = "down") =>
            /\ run[c].n > 0
            /\ run[c].ticks <= run[c].n
            /\ app[c].seconds = run[c].n - run[c].ticks
            /\ run[c].ticks < run[c].n =>
                  /\ app[c].isRunning /\ ~app[c].finished
                  /\ Cardinality(Scheduled(c)) = 1
                  /\ alarms[c] = 0
            /\ run[c].ticks = run[c].n =>
                  /\ app[c].finished /\ app[c].seconds = 0 /\ ~app[c].isRunning
                  /\ Scheduled(c) = {}
                  /\ alarms[c] = 1

\* a countdown from 2 that took its two ticks
C2_Witness ==
    \E c \in Cards :
        /\ run[c].active /\ app[c].mode = "down"
        /\ run[c].n = 2 /\ run[c].ticks = 2
        /\ app[c].finished

\* C3: a tick of a Running card adds 1 to the counter in CountUp mode and takes 1 from a
\* counter > 0 in CountDown mode; the tick that brings the counter to 0 makes the card
\* Finished, not Running, and cancels the tick in that same step, and a tick that leaves
\* it above 0 leaves the card Running.
C3_TickStep ==
    [][\A c \in Cards :
          (Tick(c) /\ app[c].isRunning) =>
              /\ app[c].mode = "up" => app'[c].seconds = app[c].seconds + 1
              /\ (app[c].mode = "down" /\ app[c].seconds > 0) =>
                    /\ app'[c].seconds = app[c].seconds - 1
                    /\ app'[c].seconds = 0 =>
                          app'[c].finished /\ ~app'[c].isRunning /\ timers'[c] = {}
                    /\ app'[c].seconds > 0 =>
                          app'[c].isRunning /\ ~app'[c].finished /\ timers'[c] = timers[c]
      ]_vars

\* a countdown one tick below its target, still running
C3_Witness ==
    \E c \in Cards :
        /\ app[c].mode = "down" /\ app[c].isRunning
        /\ app[c].targetSeconds = 2 /\ app[c].seconds = 1

\* C4, for consecutive laps of the log: diff_k = total_k - total_(k-1) for every k >= 2,
\* whatever operations were issued between the two laps.
C4_DiffIsTotalDelta ==
    \A c \in Cards :
        \A k \in 2..Len(app[c].laps) :
            app[c].laps[k].diff = app[c].laps[k].total - app[c].laps[k - 1].total

\* C5: while the time-out of the toast shown last is still pending, and that toast was
\* shown by card b, the toast is visible (no other card's time-out has hidden it).
C5_ToastStaysVisible ==
    \A b \in Cards :
        (toastTimers # <<>> /\ toastTimers[Len(toastTimers)] = b) => toastEl.show

\* C6: changeMode on a Running card changes neither mode, counter, target, finished flag,
\* lap log, lap basis nor the scheduled tick, puts the select back to the current mode and
\* shows the notification; and no step taken while Running changes the mode.
C6_ChangeModeRejected ==
    [][\A c \in Cards :
          /\ \A sel \in Modes :
                (ChangeMode(c, sel) /\ app[c].isRunning) =>
                    /\ app'[c].mode = app[c].mode
                    /\ app'[c].seconds = app[c].seconds
                    /\ app'[c].targetSeconds = app[c].targetSeconds
                    /\ app'[c].finished = app[c].finished
                    /\ app'[c].laps = app[c].laps
                    /\ app'[c].lastLapBasis = app[c].lastLapBasis
                    /\ app'[c].isRunning
                    /\ timers' = timers
                    /\ app'[c].modeSel = app[c].mode
                    /\ toastEl' = [text |-> <<"Pause to change mode">>, show |-> TRUE]
          /\ app[c].isRunning => app'[c].mode = app[c].mode
      ]_vars

\* a Running card showing the rejection
C6_Witness ==
    \E c \in Cards :
        /\ app[c].isRunning
        /\ toastEl = [text |-> <<"Pause to change mode">>, show |-> TRUE]

IsIdle(t) ==
    /\ ~t.isRunning /\ ~t.finished
    /\ t.statusText = (IF t.mode = "down" THEN "Ready (Countdown)" ELSE "Ready")
    /\ t.pausedHidden

\* C7: reset leaves the card Idle: not Running, no tick scheduled, finished flag cleared,
\* lap log empty, lap basis 0, counter 0 in CountUp mode and targetSeconds in CountDown
\* mode; mode and targetSeconds are as before.
C7_ResetToIdle ==
    [][\A c \in Cards :
          Reset(c) =>
              /\ IsIdle(app'[c])
              /\ timers'[c] = {}
              /\ app'[c].laps = <<>>
              /\ app'[c].lastLapBasis = 0
              /\ app'[c].seconds = (IF app[c].mode = "up" THEN 0 ELSE app[c].targetSeconds)
              /\ app'[c].mode = app[c].mode
              /\ app'[c].targetSeconds = app[c].targetSeconds
      ]_vars

\* a countdown card that ran and has just been reset to its target
C7_Witness ==
    \E c \in Cards :
        /\ toastEl.text = <<"Timer reset">>
        /\ app[c].interval # NoInterval
        /\ app[c].mode = "down" /\ app[c].seconds = app[c].targetSeconds
        /\ IsIdle(app[c])

\* C8: a changeMode on a card that is not Running sets the mode to the selected value,
\* clears the finished flag, sets the lap basis to 0 and the counter to targetSeconds for
\* CountDown and to 0 for CountUp.
C8_ChangeModeReinitializes ==
    [][\A c \in Cards : \A sel \in Modes :
          (ChangeMode(c, sel) /\ ~app[c].isRunning) =>
              /\ app'[c].mode = sel
              /\ ~app'[c].finished
              /\ app'[c].lastLapBasis = 0
              /\ app'[c].seconds = (IF sel = "down" THEN app[c].targetSeconds ELSE 0)
      ]_vars

\* C9: whenever the finished flag is set the card is in CountDown mode at 0 and not
\* Running; and the flag is set only by a tick of a Running CountDown card whose counter
\* was 1.
C9_FinishedOnlyAtZero ==
    /\ [](\A c \in Cards :
            app[c].finished =>
                app[c].mode = "down" /\ app[c].seconds = 0 /\ ~app[c].isRunning)
    /\ [][\A c \in Cards :
            (~app[c].finished /\ app'[c].finished) =>
                /\ Tick(c)
                /\ app[c].isRunning /\ app[c].mode = "down" /\ app[c].seconds = 1
         ]_vars

\* a Finished card whose alarm has sounded
C9_Witness ==
    \E c \in Cards :
        /\ app[c].finished
        /\ app[c].statusText = "Finished"
        /\ alarms[c] = 1

\* C10: an applyTarget whose text parses sets targetSeconds to the parsed value and leaves
\* isRunning, the scheduled tick, the mode and the lap log as they were; in CountDown mode
\* the counter becomes the new target and the finished flag is cleared, Running or not; in
\* CountUp mode counter and finished flag stay.
C10_ApplyTargetEffect ==
    [][\A c \in Cards : \A text \in TargetTexts :
          (ParsedTarget[text] # Invalid /\ ApplyTarget(c, text)) =>
              /\ app'[c].targetSeconds = ParsedTarget[text]
              /\ app'[c].isRunning = app[c].isRunning
              /\ timers' = timers
              /\ app'[c].mode = app[c].mode
              /\ app'[c].laps = app[c].laps
              /\ app[c].mode = "down" =>
                    app'[c].seconds = ParsedTarget[text] /\ ~app'[c].finished
              /\ app[c].mode = "up" =>
                    app'[c].seconds = app[c].seconds /\ app'[c].finished = app[c].finished
      ]_vars

\* a Running countdown that was just given the target 00:02, with a lap in its log
C10_Witness ==
    \E c \in Cards :
        /\ app[c].isRunning /\ app[c].mode = "down"
        /\ toastEl.text = <<"Target set to ">> \o formatTime(2)
        /\ app[c].seconds = 2 /\ app[c].targetSeconds = 2
        /\ app[c].laps # <<>>

\* C11: the k-th record of every lap log has index k; a step changes the log only by an
\* addLap of a Running card appending one record, or by reset or clearLaps emptying it
\* (so the next record is numbered 1 again).
C11_LapIndices ==
    /\ [](\A c \in Cards : \A k \in 1..Len(app[c].laps) : app[c].laps[k].index = k)
    /\ [][\A c \in Cards :
            app'[c].laps # app[c].laps =>
                \/ /\ app[c].isRunning
                   /\ AddLap(c, Len(app[c].laps) + 1)
                   /\ Len(app'[c].laps) = Len(app[c].laps) + 1
                   /\ SubSeq(app'[c].laps, 1, Len(app[c].laps)) = app[c].laps
                \/ /\ app'[c].laps = <<>>
                   /\ Reset(c) \/ ClearLaps(c)
         ]_vars

\* a log of two laps, numbered 1 and 2
C11_Witness ==
    \E c \in Cards :
        /\ Len(app[c].laps) = 2
        /\ app[c].laps[2].index = 2
        /\ app[c].laps[1].index = 1

\* C12: start on a card that is not Running, in CountDown mode with counter 0, shows the
\* notification and changes nothing else: every field of the card (Running flag, counter,
\* mode, target, finished flag, lap log, control flags) and the scheduled ticks stay.
C12_StartNotReady ==
    [][\A c \in Cards :
          (Start(c) /\ ~app[c].isRunning /\ app[c].mode = "down" /\ app[c].seconds = 0) =>
              /\ app'[c] = app[c]
              /\ ~app'[c].isRunning
              /\ timers' = timers
              /\ toastEl' = [text |-> <<"Set target & Apply before starting">>, show |-> TRUE]
      ]_vars

\* a countdown at 0 that refused to start
C12_Witness ==
    \E c \in Cards :
        /\ app[c].mode = "down" /\ app[c].seconds = 0 /\ ~app[c].isRunning
        /\ Scheduled(c) = {}
        /\ toastEl = [text |-> <<"Set target & Apply before starting">>, show |-> TRUE]

\* C13: applyTarget with a text that parseTime rejects shows the notification and leaves
\* the whole timer state as it was: target, counter, mode, Running flag, finished flag,
\* lap log, lap basis, and the scheduled ticks.
C13_InvalidTargetRejected ==
    [][\A c \in Cards : \A text \in TargetTexts :
          (ParsedTarget[text] = Invalid /\ ApplyTarget(c, text)) =>
              /\ app' = app
              /\ timers' = timers
              /\ toastEl' = [text |-> <<"Invalid target (use mm:ss)">>, show |-> TRUE]
      ]_vars

\* a Running countdown with a lap, after a rejected Apply
C13_Witness ==
    \E c \in Cards :
        /\ app[c].isRunning /\ app[c].mode = "down" /\ app[c].laps # <<>>
        /\ toastEl = [text |-> <<"Invalid target (use mm:ss)">>, show |-> TRUE]

\* C14: clearLaps empties the lap log and sets the lap basis to the current basis (counter
\* in CountUp, targetSeconds - counter in CountDown), leaving counter, mode, Running flag,
\* targetSeconds and the scheduled ticks; and the lap recorded next after a clearLaps has
\* index 1 and a diff equal to the number of ticks since that clearLaps.
C14_ClearLapsBasis ==
    /\ [][\A c \in Cards :
            ClearLaps(c) =>
                /\ app'[c].laps = <<>>
                /\ app'[c].lastLapBasis = Basis(app[c])
                /\ app'[c].seconds = app[c].seconds
                /\ app'[c].mode = app[c].mode
                /\ app'[c].isRunning = app[c].isRunning
                /\ app'[c].targetSeconds = app[c].targetSeconds
                /\ timers' = timers
         ]_vars
    /\ [][\A c \in Cards :
            (sinceClear[c].active /\ app[c].isRunning /\ AddLap(c, MaxLapLog)) =>
                /\ Len(app'[c].laps) = 1
                /\ app'[c].laps[1].index = 1
                /\ app'[c].laps[1].diff = sinceClear[c].ticks
         ]_vars

\* what the claim calls an integer part, read generously: blanks and a sign may precede
\* the digits, and nothing may follow them
Unsigned(s) ==
    LET t == TrimLeft(s)
    IN  IF t # <<>> /\ Head(t) \in {"-", "+"} THEN Tail(t) ELSE t

IsInteger(s) == Unsigned(s) # <<>> /\ DigitRun(Unsigned(s)) = Unsigned(s)

IntegerVal(s) ==
    LET t == TrimLeft(s)
    IN  IF t # <<>> /\ Head(t) = "-" THEN -DigitsVal(Unsigned(s)) ELSE DigitsVal(Unsigned(s))

\* the texts the claim admits: two integer parts around one ":", mm >= 0, 0 <= ss <= 59
WellFormedTarget(text) ==
    LET parts == Split(Trim(text)) IN
    /\ Len(parts) = 2
    /\ IsInteger(parts[1])
    /\ IsInteger(parts[2])
    /\ IntegerVal(parts[1]) >= 0
    /\ IntegerVal(parts[2]) >= 0
    /\ IntegerVal(parts[2]) <= 59

\* C15: parseTime returns mm*60+ss for exactly the texts mm:ss with both parts integers,
\* mm >= 0 and 0 <= ss <= 59, and rejects every other text, a part with characters after
\* its digits included.
C15_ParseTargetExact ==
    parse.done =>
        IF WellFormedTarget(parse.text)
        THEN LET parts == Split(Trim(parse.text))
             IN  parse.result = IntegerVal(parts[1]) * 60 + IntegerVal(parts[2])
        ELSE parse.result = Invalid

\* C16: in every reachable state each record of the lap log has diff >= 0 and total >= 0,
\* the counter is not negative, in CountDown mode the counter does not exceed targetSeconds,
\* and the lap basis does not exceed the current basis.
C16_NonNegativeLaps ==
    \A c \in Cards :
        /\ \A k \in 1..Len(app[c].laps) : app[c].laps[k].diff >= 0 /\ app[c].laps[k].total >= 0
        /\ app[c].seconds >= 0
        /\ app[c].mode = "down" => app[c].seconds <= app[c].targetSeconds
        /\ app[c].lastLapBasis <= Basis(app[c])

\* a Running countdown lapped after its first tick: the log holds a record with a positive
\* diff, and the lap basis equals the basis
C16_Witness ==
    \E c \in Cards :
        /\ app[c].mode = "down" /\ app[c].isRunning
        /\ app[c].laps # <<>> /\ app[c].laps[1].diff > 0
        /\ app[c].lastLapBasis = Basis(app[c]) /\ Basis(app[c]) > 0

\* C17: in every reachable state the time text is the formatting of the counter, and the
\* ring fraction is (targetSeconds - counter) / targetSeconds clamped to [0, 1] in CountDown
\* mode with targetSeconds > 0, and (counter mod 60) / 60 otherwise.
C17_DisplayMatchesState ==
    \A c \in Cards :
        LET t == app[c] IN
        /\ t.timerText = formatTime(t.seconds)
        /\ IF t.mode = "down" /\ t.targetSeconds > 0
           THEN LET elapsed == t.targetSeconds - t.seconds
                    clamped == IF elapsed < 0 THEN 0
                               ELSE IF elapsed > t.targetSeconds THEN t.targetSeconds
                               ELSE elapsed
                IN  t.ring.num * t.targetSeconds = clamped * t.ring.den
           ELSE t.ring.num * 60 = (t.seconds % 60) * t.ring.den
        /\ t.ring.den > 0

\* a countdown of 2 seconds half way: the text reads 00:01 and the ring is half drawn
C17_Witness ==
    \E c \in Cards :
        /\ app[c].mode = "down" /\ app[c].targetSeconds = 2 /\ app[c].seconds = 1
        /\ app[c].timerText = <<"0", "0", ":", "0", "1">>
        /\ app[c].ring = [num |-> 1, den |-> 2]

\* C18: a card Running in CountDown mode always has a counter above 0, so that the ticks
\* count it down to 0 and finish it (C2, C3); no reachable state is Running in CountDown
\* mode with counter 0, where a tick neither counts nor finishes.
C18_CountdownFinishes ==
    \A c \in Cards :
        (app[c].isRunning /\ app[c].mode = "down") =>
            /\ app[c].seconds > 0
            /\ tick(app[c]).seconds = app[c].seconds - 1

\* C19: in every reachable state pause and lap are enabled exactly when the card is Running
\* and start is enabled exactly when it is not; and no step of changeMode, applyTarget,
\* addLap or clearLaps changes a control flag.
C19_ControlsFollowRunState ==
    /\ [](\A c \in Cards :
            /\ ~app[c].disabled.pause = app[c].isRunning
            /\ ~app[c].disabled.lap = app[c].isRunning
            /\ ~app[c].disabled.start = ~app[c].isRunning)
    /\ [][\A c \in Cards :
            (\/ \E sel \in Modes : ChangeMode(c, sel)
             \/ \E text \in TargetTexts : ApplyTarget(c, text)
             \/ AddLap(c, MaxLapLog)
             \/ ClearLaps(c)) => app'[c].disabled = app[c].disabled
         ]_vars

\* a countdown that finished: start and reset enabled again, pause and lap disabled
C19_Witness ==
    \E c \in Cards :
        /\ app[c].finished /\ ~app[c].isRunning
        /\ app[c].disabled = [start |-> FALSE, pause |-> TRUE, lap |-> TRUE, reset |-> FALSE]

\* C20: in every reachable state the status text agrees with the run state: a Running card
\* shows "Running..." or "Counting down...", and a card showing "Ready",
\* "Ready (Countdown)", "Paused" or "Finished" is not Running.
C20_StatusFollowsRunState ==
    \A c \in Cards :
        /\ app[c].isRunning => app[c].statusText \in {"Running...", "Counting down..."}
        /\ app[c].statusText \in {"Ready", "Ready (Countdown)", "Paused", "Finished"}
               => ~app[c].isRunning
=============================================================================
